---- MODULE Spec2Model ----
(***************************************************************************)
(* Model of the notebook 01_deepLearning/03_keras_cnn.ipynb: the cells     *)
(* executed top to bottom, the MNISTClassifier layer stack, the two        *)
(* training paths (Keras fit, and the manual gradient-tape loop), and the  *)
(* evaluation cells (evaluate, confusion matrix, per-class accuracy).      *)
(*                                                                         *)
(* Scaling.  The MNIST training set (60000 samples) and test set (10000    *)
(* samples) are scaled down to NumTrain and at most MaxTest samples.  The  *)
(* literal 60000 of the source (the shuffle buffer size) is the size of    *)
(* the training set, so it scales with it.  Learning rates are counted in  *)
(* thousandths: 10 stands for 0.01.  A quotient is a pair [num, den].      *)
(***************************************************************************)
EXTENDS Integers, Sequences, FiniteSets, TLC

\* ------------------------------------------------------------------ bounds
NumTrain == 4
MaxEpochs == 2
MaxTest == 3

\* ------------------------------------------------------- program constants
NumClasses == 10
ImageSide == 28
DefaultAdamLr == 1

Classes == 0..(NumClasses - 1)
Samples == 1..NumTrain
BatchSizes == 1..(NumTrain + 1)
EpochCounts == 1..MaxEpochs
LrChoices == {DefaultAdamLr, 10}
ClassPool == {0, 9}

\* ----------------------------------------------------------------- helpers
RECURSIVE SeqSum(_)
SeqSum(s) == IF s = <<>> THEN 0 ELSE Head(s) + SeqSum(Tail(s))

Range(s) == {s[k] : k \in 1..Len(s)}

Perms(n) == {p \in [1..n -> 1..n] : \A a, b \in 1..n : p[a] = p[b] => a = b}

\* ------------------------------------------------------------ MNISTClassifier
\* Shapes are tuples.  Conv2D and MaxPooling2D use the Keras defaults:
\* padding "valid", convolution stride 1, pooling stride equal to the pool size.
Conv2D(filters, kernel, x) ==
    <<x[1], x[2] - kernel[1] + 1, x[3] - kernel[2] + 1, filters>>

MaxPooling2D(pool, x) == <<x[1], x[2] \div pool[1], x[3] \div pool[2], x[4]>>

Dropout(rate, x) == x

Flatten(x) == <<x[1], x[2] * x[3] * x[4]>>

Dense(units, x) == <<x[1], units>>

conv_1(x) == Conv2D(32, <<3, 3>>, x)
conv_2(x) == Conv2D(64, <<3, 3>>, x)
pool_3(x) == MaxPooling2D(<<2, 2>>, x)
drop_4(x) == Dropout(25, x)
dense_5(x) == Dense(128, x)
drop_6(x) == Dropout(50, x)
dense_7(x) == Dense(NumClasses, x)

\* call with the pooling applied before the second convolution
call_pool_first(inputs) ==
    LET x1 == conv_1(inputs)
        x2 == pool_3(x1)
        x3 == conv_2(x2)
        x4 == drop_4(x3)
        x5 == Flatten(x4)
        x6 == dense_5(x5)
        x7 == drop_6(x6)
        x8 == dense_7(x7)
    IN  <<x1, x2, x3, x4, x5, x6, x7, x8>>

\* call: the shapes after each of the eight layers, in the order applied.
call(inputs) ==
    LET x1 == conv_1(inputs)
        x2 == conv_2(x1)
        x3 == pool_3(x2)
        x4 == drop_4(x3)
        x5 == Flatten(x4)
        x6 == dense_5(x5)
        x7 == drop_6(x6)
        x8 == dense_7(x7)
    IN  <<x1, x2, x3, x4, x5, x6, x7, x8>>

\* model.trainable_variables: kernel and bias of each layer that has weights,
\* in layer creation order.
trainable_variables ==
    <<"conv_1/kernel", "conv_1/bias", "conv_2/kernel", "conv_2/bias",
      "dense_5/kernel", "dense_5/bias", "dense_7/kernel", "dense_7/bias">>

\* reshape of a batch of k images to [-1, 28, 28, 1]
Reshape(k) == <<k, ImageSide, ImageSide, 1>>

\* ------------------------------------------------------------------ datasets
\* tf.data.Dataset.from_tensor_slices((x_train, y_train)): the samples in
\* their original order.
from_tensor_slices == [k \in 1..NumTrain |-> k]

\* ds.shuffle(buffer_size): the datasets the call can RETURN.  With a buffer at
\* least as large as the dataset every order is possible.  ds itself is not
\* changed.
shuffle(ds, buffer_size) ==
    IF buffer_size >= Len(ds)
    THEN {[k \in 1..Len(ds) |-> ds[p[k]]] : p \in Perms(Len(ds))}
    ELSE {ds}

\* batch that keeps the final shorter group whatever drop_remainder says
RECURSIVE batch_keep_remainder(_, _, _)
batch_keep_remainder(ds, bs, drop_remainder) ==
    IF Len(ds) = 0 THEN <<>>
    ELSE IF Len(ds) < bs THEN <<ds>>
         ELSE <<SubSeq(ds, 1, bs)>>
                  \o batch_keep_remainder(SubSeq(ds, bs + 1, Len(ds)), bs, drop_remainder)

\* ds.batch(batch_size, drop_remainder): consecutive groups of batch_size
\* elements; a final shorter group is kept unless drop_remainder.
RECURSIVE batch(_, _, _)
batch(ds, bs, drop_remainder) ==
    IF Len(ds) = 0 THEN <<>>
    ELSE IF Len(ds) < bs
         THEN (IF drop_remainder THEN <<>> ELSE <<ds>>)
         ELSE <<SubSeq(ds, 1, bs)>> \o batch(SubSeq(ds, bs + 1, Len(ds)), bs, drop_remainder)

\* ------------------------------------------------------------------- metrics
\* A model output for one sample: NumClasses scores, indexed by class.
\* Vec(p, t): the top score at class p and the score t at the class before it
\* (t = 2 ties the two).
Vec(p, t) ==
    [c \in Classes |-> IF c = p THEN 2
                       ELSE IF c = (p + NumClasses - 1) % NumClasses THEN t ELSE 0]

ScoreVecs == {Vec(p, t) : p \in ClassPool, t \in {1, 2}}

\* numpy.argmax / tf.argmax along the class axis: the first index holding the
\* largest score.
RECURSIVE ArgmaxFrom(_, _, _)
ArgmaxFrom(v, c, best) ==
    IF c > NumClasses - 1 THEN best
    ELSE ArgmaxFrom(v, c + 1, IF v[c] > v[best] THEN c ELSE best)

argmax(v) == ArgmaxFrom(v, 1, 0)

argmax_axis1(outs) == [k \in 1..Len(outs) |-> argmax(outs[k])]

\* confusion_matrix with the two label arguments exchanged
RECURSIVE confusion_matrix_swapped(_, _, _)
confusion_matrix_swapped(y_true, y_pred, labels) ==
    IF y_true = <<>> THEN [i \in labels |-> [j \in labels |-> 0]]
    ELSE LET rest == confusion_matrix_swapped(Tail(y_true), Tail(y_pred), labels)
             i == Head(y_pred)
             j == Head(y_true)
         IN  IF i \in labels /\ j \in labels
             THEN [rest EXCEPT ![i][j] = @ + 1]
             ELSE rest

\* sklearn.metrics.confusion_matrix(y_true, y_pred, labels): one count added at
\* (row y_true[k], column y_pred[k]) for each sample k with both in labels.
RECURSIVE confusion_matrix(_, _, _)
confusion_matrix(y_true, y_pred, labels) ==
    IF y_true = <<>> THEN [i \in labels |-> [j \in labels |-> 0]]
    ELSE LET rest == confusion_matrix(Tail(y_true), Tail(y_pred), labels)
             i == Head(y_true)
             j == Head(y_pred)
         IN  IF i \in labels /\ j \in labels
             THEN [rest EXCEPT ![i][j] = @ + 1]
             ELSE rest

\* evaluate that counts a sample as correct when its label has a top score,
\* first or not
RECURSIVE evaluate_ties_correct(_, _)
evaluate_ties_correct(outs, y) ==
    IF y = <<>> THEN [num |-> 0, den |-> 0]
    ELSE LET rest == evaluate_ties_correct(Tail(outs), Tail(y))
             top == Head(outs)[argmax(Head(outs))]
         IN  [num |-> rest.num + (IF Head(outs)[Head(y)] = top THEN 1 ELSE 0),
              den |-> rest.den + 1]

\* cnn_model.evaluate with metrics=['accuracy'] on integer labels: the metric
\* accumulates the number of samples whose argmax equals the label, and the
\* number of samples; its value is the quotient.
RECURSIVE evaluate(_, _)
evaluate(outs, y) ==
    IF y = <<>> THEN [num |-> 0, den |-> 0]
    ELSE LET rest == evaluate(Tail(outs), Tail(y))
         IN  [num |-> rest.num + (IF argmax(Head(outs)) = Head(y) THEN 1 ELSE 0),
              den |-> rest.den + 1]

diagonal(m) == [i \in Classes |-> m[i][i]]

RECURSIVE RowSumFrom(_, _)
RowSumFrom(row, j) ==
    IF j > NumClasses - 1 THEN 0 ELSE row[j] + RowSumFrom(row, j + 1)

\* the sums along axis 0 (of the columns) instead
sum_axis0(m) == [j \in Classes |-> RowSumFrom([i \in Classes |-> m[i][j]], 0)]

sum_axis1(m) == [i \in Classes |-> RowSumFrom(m[i], 0)]

\* elementwise true division of two integer arrays; 0/0 is nan, kept as the
\* quotient with denominator 0.
Divide(a, b) == [i \in Classes |-> [num |-> a[i], den |-> b[i]]]

\* "%.<d>f" % q with scale = 10^d: the quotient rounded to the nearest multiple
\* of 1/scale (ties to even), as that integer multiple; nan for 0/0.
Format(q, scale) ==
    IF q.den = 0 THEN [nan |-> TRUE, val |-> 0]
    ELSE LET n == q.num * scale
             lo == n \div q.den
             r == n % q.den
         IN  [nan |-> FALSE,
              val |-> IF 2 * r < q.den THEN lo
                      ELSE IF 2 * r > q.den THEN lo + 1
                      ELSE IF lo % 2 = 0 THEN lo ELSE lo + 1]

\* --------------------------------------------------------------------- state
VARIABLES
    pc,          \* position in the notebook run
    globals,     \* the global names assigned so far
    nameError,   \* the names whose read raised NameError
    args,        \* the literals batch_size, epochs, lr of cells 11 and 25
    y_test,      \* test labels
    cnn_outputs, \* what the trained cnn_model returns for x_test_reshaped
    cnnOpt,      \* optimizer of cnn_model after compile
    loopOpt,     \* optimizer opt of train_network
    fitEpoch,    \* fit: epochs completed
    fitBatches,  \* fit: batches left in the current epoch
    fitUpdates,  \* fit: parameter updates, per epoch
    fitSeen,     \* fit: samples consumed, per epoch
    callShapes,  \* shapes after each layer in the last call of the model
    scores,      \* accuracy returned by evaluate
    printedAcc,  \* the accuracy line printed by cell 16
    predictions, \* cnn_model.predict(x_test_reshaped)
    cm,          \* confusion matrix
    perClass,    \* cm.diagonal()/cm.sum(axis=1)
    printed,     \* the per-class lines printed so far
    dataset,     \* the global dataset
    shuffled,    \* value returned by the last dataset.shuffle call
    batches,     \* train_loop: batches not yet iterated in this epoch
    i_epoch,
    i_batch,
    wver,        \* number of updates applied to each trainable variable
    entryW,      \* wver when the current train_iteration was called
    tape,        \* the loss recorded by the gradient tape (the weights it used)
    grads,       \* tape.gradient(loss, trainable_vars)
    applied,     \* the (gradient, variable) pairs given to apply_gradients
    iterTrace,   \* the steps of the current train_iteration, in order
    loss,        \* value returned by the last train_iteration
    log,         \* train_loop: printed lines and train_iteration calls, in order
    loopUpdates, \* train_loop: parameter updates, per epoch
    loopSeen     \* train_loop: samples consumed, per epoch

ctlVars == <<pc, globals, nameError>>
inVars == <<args, y_test, cnn_outputs>>
fitVars == <<cnnOpt, fitEpoch, fitBatches, fitUpdates, fitSeen>>
metricVars == <<scores, printedAcc, predictions, cm, perClass, printed>>
iterVars == <<wver, entryW, tape, grads, applied, iterTrace, loss>>
loopVars == <<loopOpt, dataset, shuffled, batches, i_epoch, i_batch, log,
              loopUpdates, loopSeen>>
vars == <<ctlVars, inVars, fitVars, callShapes, metricVars, iterVars, loopVars>>

dataVars == <<inVars, fitVars, callShapes, metricVars, iterVars, loopVars>>

\* ------------------------------------------------------------ initial values
NoOpt == [kind |-> "none", lr |-> 0]
NoQuotient == [num |-> 0, den |-> 0]
NoFormat == [nan |-> TRUE, val |-> 0]
ZeroMatrix == [i \in Classes |-> [j \in Classes |-> 0]]
ZeroWeights == [v \in Range(trainable_variables) |-> 0]
NoCounts == [e \in EpochCounts |-> 0]
NoSamples == [e \in EpochCounts |-> {}]

\* The test data of the notebook run: two samples, one classified correctly.
RunLabels == <<0, 3>>
RunOutputs == <<Vec(0, 1), Vec(9, 1)>>

TestSets ==
    UNION {[1..t -> ClassPool] : t \in 1..MaxTest}

InitData ==
    /\ cnnOpt = NoOpt
    /\ fitEpoch = 0
    /\ fitBatches = <<>>
    /\ fitUpdates = NoCounts
    /\ fitSeen = NoSamples
    /\ callShapes = <<>>
    /\ scores = NoQuotient
    /\ printedAcc = NoFormat
    /\ predictions = <<>>
    /\ cm = ZeroMatrix
    /\ perClass = [i \in Classes |-> NoQuotient]
    /\ printed = <<>>
    /\ loopOpt = NoOpt
    /\ dataset = <<>>
    /\ shuffled = <<>>
    /\ batches = <<>>
    /\ i_epoch = 0
    /\ i_batch = 0
    /\ wver = ZeroWeights
    /\ entryW = ZeroWeights
    /\ tape = <<>>
    /\ grads = <<>>
    /\ applied = <<>>
    /\ iterTrace = <<>>
    /\ loss = <<>>
    /\ log = <<>>
    /\ loopUpdates = NoCounts
    /\ loopSeen = NoSamples

\* Before the first cell: nothing is defined.  The literals of cells 11 and 25
\* range over the bounded argument sets.
Init ==
    /\ pc = "cell1"
    /\ globals = {}
    /\ nameError = {}
    /\ args \in [batch_size : BatchSizes, epochs : EpochCounts, lr : LrChoices]
    /\ y_test = RunLabels
    /\ cnn_outputs = RunOutputs
    /\ InitData

\* ------------------------------------------------------------- name lookup
\* A step of the run: the names in pre are assigned, then the names in reads
\* are looked up, then the step acts and assigns the names in writes.  A
\* lookup of an unassigned global raises NameError, which ends the run.
Step(pre, reads, writes, next, body) ==
    IF reads \subseteq (globals \cup pre)
    THEN /\ globals' = globals \cup pre \cup writes
         /\ pc' = next
         /\ UNCHANGED nameError
         /\ body
    ELSE /\ globals' = globals \cup pre
         /\ pc' = "aborted"
         /\ nameError' = reads \ (globals \cup pre)
         /\ UNCHANGED dataVars

\* ------------------------------------------------ cells 1 to 10: definitions
Cell1Writes == {"tf", "numpy", "plt", "time"}

Cell1 ==
    /\ pc = "cell1"
    /\ Step({}, {}, Cell1Writes, "cell3", UNCHANGED dataVars)

Cell3Reads == {"tf", "numpy"}
Cell3Writes == {"x_train", "y_train", "x_test", "y_test"}

Cell3 ==
    /\ pc = "cell3"
    /\ Step({}, Cell3Reads, Cell3Writes, "cell7", UNCHANGED dataVars)

\* the class statement evaluates its base class and the default argument
Cell7Reads == {"tf"}

Cell7 ==
    /\ pc = "cell7"
    /\ Step({}, Cell7Reads, {"MNISTClassifier"}, "cell10", UNCHANGED dataVars)

Cell10 ==
    /\ pc = "cell10"
    /\ Step({}, {}, {"train_network_concise"}, "cell11", UNCHANGED dataVars)

\* --------------------------------------- cell 11: train_network_concise
Cell11Assigns == {"batch_size", "epochs", "lr"}
Cell11Reads == {"train_network_concise", "batch_size", "epochs", "lr"}

Cell11 ==
    /\ pc = "cell11"
    /\ Step(Cell11Assigns, Cell11Reads, {}, "concise_build", UNCHANGED dataVars)

\* compile(optimizer="adam"): the string names an Adam optimizer built with the
\* default learning rate.
compile(optimizer) ==
    IF optimizer = "adam" THEN [kind |-> "adam", lr |-> DefaultAdamLr] ELSE NoOpt

ConciseBuildReads == {"MNISTClassifier", "tf"}

ConciseBuild ==
    /\ pc = "concise_build"
    /\ Step({}, ConciseBuildReads, {}, "concise_fit",
            /\ cnnOpt' = compile("adam")
            /\ UNCHANGED <<inVars, fitEpoch, fitBatches, fitUpdates, fitSeen,
                           callShapes, metricVars, iterVars, loopVars>>)

ConciseFitReads == {"numpy", "x_train", "y_train"}

ConciseFit ==
    /\ pc = "concise_fit"
    /\ Step({}, ConciseFitReads, {}, "fit_epoch",
            /\ fitEpoch' = 0
            /\ UNCHANGED <<inVars, cnnOpt, fitBatches, fitUpdates, fitSeen,
                           callShapes, metricVars, iterVars, loopVars>>)

\* fit, start of an epoch: the sample order is reshuffled (shuffle=True is the
\* default) and cut into batches, the last one possibly shorter.
FitEpochBegin ==
    /\ pc = "fit_epoch"
    /\ fitEpoch < args.epochs
    /\ \E order \in shuffle(from_tensor_slices, NumTrain) :
          Step({}, {}, {}, "fit_batch",
               /\ fitBatches' = batch(order, args.batch_size, FALSE)
               /\ UNCHANGED <<inVars, cnnOpt, fitEpoch, fitUpdates, fitSeen,
                              callShapes, metricVars, iterVars, loopVars>>)

\* fit, one batch: a forward pass of the model and one optimizer update
FitBatch ==
    /\ pc = "fit_batch"
    /\ fitBatches # <<>>
    /\ Step({}, {"tf"}, {}, "fit_batch",
            /\ callShapes' = call(Reshape(Len(Head(fitBatches))))
            /\ fitUpdates' = [fitUpdates EXCEPT ![fitEpoch + 1] = @ + 1]
            /\ fitSeen' = [fitSeen EXCEPT ![fitEpoch + 1] = @ \cup Range(Head(fitBatches))]
            /\ fitBatches' = Tail(fitBatches)
            /\ UNCHANGED <<inVars, cnnOpt, fitEpoch, metricVars, iterVars, loopVars>>)

FitEpochEnd ==
    /\ pc = "fit_batch"
    /\ fitBatches = <<>>
    /\ Step({}, {}, {}, "fit_epoch",
            /\ fitEpoch' = fitEpoch + 1
            /\ UNCHANGED <<inVars, cnnOpt, fitBatches, fitUpdates, fitSeen,
                           callShapes, metricVars, iterVars, loopVars>>)

\* return history, cnn_model; the cell assigns both
ConciseReturnWrites == {"history", "cnn_model"}

ConciseReturn ==
    /\ pc = "fit_epoch"
    /\ fitEpoch = args.epochs
    /\ Step({}, {}, ConciseReturnWrites, "cell13", UNCHANGED dataVars)

\* ------------------------------------------------- cells 13 to 18: metrics
Cell13Reads == {"plt", "history"}

Cell13 ==
    /\ pc = "cell13"
    /\ Step({}, Cell13Reads, {}, "cell16", UNCHANGED dataVars)

Cell16Reads == {"numpy", "x_test", "cnn_model", "y_test"}
\* cell 16 without the assignment of x_test_reshaped
Cell16WritesScoresOnly == {"scores"}
Cell16Writes == {"x_test_reshaped", "scores"}

\* evaluate, then print the accuracy as a percentage with two decimals
Cell16 ==
    /\ pc = "cell16"
    /\ Step({}, Cell16Reads, Cell16Writes, "cell18",
            /\ scores' = evaluate(cnn_outputs, y_test)
            /\ printedAcc' = Format(scores', 100 * 100)
            /\ UNCHANGED <<inVars, fitVars, callShapes, predictions, cm, perClass,
                           printed, iterVars, loopVars>>)

Cell18Imports == {"confusion_matrix"}
Cell18Reads == {"confusion_matrix", "cnn_model", "x_test_reshaped", "y_test", "numpy"}
Cell18Writes == {"predictions", "cm"}

\* predict, the confusion matrix, and the array of per-class accuracies
Cell18 ==
    /\ pc = "cell18"
    /\ Step(Cell18Imports, Cell18Reads, Cell18Writes, "cell18_for",
            /\ predictions' = cnn_outputs
            /\ cm' = confusion_matrix(y_test, argmax_axis1(predictions'), Classes)
            /\ perClass' = Divide(diagonal(cm'), sum_axis1(cm'))
            /\ printed' = <<>>
            /\ UNCHANGED <<inVars, fitVars, callShapes, scores, printedAcc,
                           iterVars, loopVars>>)

\* for i, j in enumerate(...): print("%d: %.4f" % (i, j))
Cell18Print ==
    /\ pc = "cell18_for"
    /\ Len(printed) < NumClasses
    /\ LET i == Len(printed)
       IN  Step({}, {}, {"i", "j"}, "cell18_for",
                /\ printed' = Append(printed, [class |-> i,
                                               text |-> Format(perClass[i], 10000)])
                /\ UNCHANGED <<inVars, fitVars, callShapes, scores, printedAcc,
                               predictions, cm, perClass, iterVars, loopVars>>)

Cell18End ==
    /\ pc = "cell18_for"
    /\ Len(printed) = NumClasses
    /\ Step({}, {}, {}, "cell21", UNCHANGED dataVars)

\* ------------------------------------------- cells 21 to 24: definitions
Cell21 ==
    /\ pc = "cell21"
    /\ Step({}, {}, {"compute_loss"}, "cell22", UNCHANGED dataVars)

Cell22 ==
    /\ pc = "cell22"
    /\ Step({}, {}, {"forward_pass"}, "cell23", UNCHANGED dataVars)

Cell23 ==
    /\ pc = "cell23"
    /\ Step({}, {}, {"train_loop"}, "cell24", UNCHANGED dataVars)

Cell24 ==
    /\ pc = "cell24"
    /\ Step({}, {}, {"train_network"}, "cell25", UNCHANGED dataVars)

\* ------------------------------------------------ cell 25: train_network
Cell25DatasetReads == {"tf", "x_train", "y_train"}

\* dataset = from_tensor_slices(...); dataset.shuffle(60000): the value the
\* shuffle returns is not assigned to anything
Cell25Dataset ==
    /\ pc = "cell25"
    /\ \E s \in shuffle(from_tensor_slices, NumTrain) :
          Step({}, Cell25DatasetReads, {"dataset"}, "cell25_call",
               /\ dataset' = from_tensor_slices
               /\ shuffled' = s
               /\ UNCHANGED <<inVars, fitVars, callShapes, metricVars, iterVars,
                              loopOpt, batches, i_epoch, i_batch, log,
                              loopUpdates, loopSeen>>)

Cell25Assigns == {"batch_size", "epochs", "lr"}
Cell25Reads == {"train_network", "batch_size", "epochs", "lr"}

Cell25Call ==
    /\ pc = "cell25_call"
    /\ Step(Cell25Assigns, Cell25Reads, {}, "train_network", UNCHANGED dataVars)

\* tf.keras.optimizers.Adam(learning_rate)
Adam(learning_rate) == [kind |-> "adam", lr |-> learning_rate]

TrainNetworkReads == {"MNISTClassifier", "tf", "train_loop"}

\* mnist_model = MNISTClassifier(); opt = Adam(_lr); train_loop(...) is entered
train_network ==
    /\ pc = "train_network"
    /\ Step({}, TrainNetworkReads, {}, "for_epoch",
            /\ loopOpt' = Adam(args.lr)
            /\ wver' = ZeroWeights
            /\ i_epoch' = 0
            /\ UNCHANGED <<inVars, fitVars, callShapes, metricVars, entryW, tape,
                           grads, applied, iterTrace, loss, dataset, shuffled,
                           batches, i_batch, log, loopUpdates, loopSeen>>)

\* ---------------------------------------------------------- train_loop
BeginLine(i) == [ev |-> "beginning epoch", epoch |-> i]
\* the took line numbering the epochs from 1
TookLineFromOne(i) == [ev |-> "took", epoch |-> i + 1]
TookLine(i) == [ev |-> "took", epoch |-> i]
IterCall(i) == [ev |-> "train_iteration", epoch |-> i]

EpochBeginReads == {"time", "dataset"}

\* for i_epoch in range(n_training_epochs): the print, the shuffle whose
\* result is not assigned, and batches = dataset.batch(..., drop_remainder=True)
EpochBegin ==
    /\ pc = "for_epoch"
    /\ i_epoch < args.epochs
    /\ \E s \in shuffle(dataset, NumTrain) :
          Step({}, EpochBeginReads, {}, "for_batch",
               /\ log' = Append(log, BeginLine(i_epoch))
               /\ shuffled' = s
               /\ batches' = batch(dataset, args.batch_size, TRUE)
               /\ i_batch' = 0
               /\ UNCHANGED <<inVars, fitVars, callShapes, metricVars, iterVars,
                              loopOpt, dataset, i_epoch, loopUpdates, loopSeen>>)

\* tape.gradient(loss, sources): one gradient per source, in the order of the
\* sources, each of the recorded loss
gradient(recorded, sources) ==
    [k \in 1..Len(sources) |-> [wrt |-> sources[k], of |-> recorded[1]]]

\* zip pairing the gradients with the variables in reverse order
zip_reversed(a, b) ==
    [k \in 1..(IF Len(a) < Len(b) THEN Len(a) ELSE Len(b)) |-> <<a[k], b[Len(b) + 1 - k]>>]

zip(a, b) ==
    [k \in 1..(IF Len(a) < Len(b) THEN Len(a) ELSE Len(b)) |-> <<a[k], b[k]>>]

\* opt.apply_gradients(grads_and_vars): one update of every variable that
\* appears in a pair
apply_gradients(grads_and_vars, w) ==
    [v \in DOMAIN w |->
        IF \E k \in 1..Len(grads_and_vars) : grads_and_vars[k][2] = v
        THEN w[v] + 1 ELSE w[v]]

IterForwardReads == {"tf", "forward_pass", "compute_loss"}

\* the next batch is reshaped and train_iteration is called: the forward pass
\* under the tape
IterForward ==
    /\ pc = "for_batch"
    /\ batches # <<>>
    /\ Step({}, IterForwardReads, {}, "iter_gradient",
            /\ log' = Append(log, IterCall(i_epoch))
            /\ entryW' = wver
            /\ callShapes' = call(Reshape(Len(Head(batches))))
            /\ tape' = <<wver>>
            /\ grads' = <<>>
            /\ applied' = <<>>
            /\ iterTrace' = <<"forward_pass">>
            /\ UNCHANGED <<inVars, fitVars, metricVars, wver, loss, loopOpt,
                           dataset, shuffled, batches, i_epoch, i_batch,
                           loopUpdates, loopSeen>>)

IterGradient ==
    /\ pc = "iter_gradient"
    /\ Step({}, {}, {}, "iter_apply",
            /\ grads' = gradient(tape, trainable_variables)
            /\ iterTrace' = Append(iterTrace, "gradient")
            /\ UNCHANGED <<inVars, fitVars, callShapes, metricVars, wver, entryW,
                           tape, applied, loss, loopVars>>)

IterApply ==
    /\ pc = "iter_apply"
    /\ Step({}, {}, {}, "iter_return",
            /\ applied' = zip(grads, trainable_variables)
            /\ wver' = apply_gradients(applied', wver)
            /\ iterTrace' = Append(iterTrace, "apply_gradients")
            /\ UNCHANGED <<inVars, fitVars, callShapes, metricVars, entryW, tape,
                           grads, loss, loopVars>>)

\* return loss; the loop moves to the next batch
IterReturn ==
    /\ pc = "iter_return"
    /\ Step({}, {}, {}, "for_batch",
            /\ loss' = tape
            /\ loopUpdates' = [loopUpdates EXCEPT ![i_epoch + 1] = @ + 1]
            /\ loopSeen' = [loopSeen EXCEPT ![i_epoch + 1] = @ \cup Range(Head(batches))]
            /\ batches' = Tail(batches)
            /\ i_batch' = i_batch + 1
            /\ UNCHANGED <<inVars, fitVars, callShapes, metricVars, wver, entryW,
                           tape, grads, applied, iterTrace, loopOpt, dataset,
                           shuffled, i_epoch, log>>)

EpochEndReads == {"time"}

EpochEnd ==
    /\ pc = "for_batch"
    /\ batches = <<>>
    /\ Step({}, EpochEndReads, {}, "for_epoch",
            /\ log' = Append(log, TookLine(i_epoch))
            /\ i_epoch' = i_epoch + 1
            /\ UNCHANGED <<inVars, fitVars, callShapes, metricVars, iterVars,
                           loopOpt, dataset, shuffled, batches, i_batch,
                           loopUpdates, loopSeen>>)

TrainLoopReturn ==
    /\ pc = "for_epoch"
    /\ i_epoch = args.epochs
    /\ Step({}, {}, {}, "done", UNCHANGED dataVars)

\* ------------------------------------------------------------ specifications
Next ==
    \/ Cell1 \/ Cell3 \/ Cell7 \/ Cell10 \/ Cell11
    \/ ConciseBuild \/ ConciseFit \/ FitEpochBegin \/ FitBatch \/ FitEpochEnd
    \/ ConciseReturn
    \/ Cell13 \/ Cell16 \/ Cell18 \/ Cell18Print \/ Cell18End
    \/ Cell21 \/ Cell22 \/ Cell23 \/ Cell24
    \/ Cell25Dataset \/ Cell25Call \/ train_network
    \/ EpochBegin \/ IterForward \/ IterGradient \/ IterApply \/ IterReturn
    \/ EpochEnd \/ TrainLoopReturn

Spec == Init /\ [][Next]_vars

\* The metric cells alone, over every bounded test set and every output of
\* the trained model: the run is taken up after cell 13, for the arguments
\* MetricsArgs.
MetricsArgs == [batch_size |-> NumTrain, epochs |-> 1, lr |-> 10]

GlobalsAfterCell13 ==
    Cell1Writes \cup Cell3Writes \cup {"MNISTClassifier", "train_network_concise"}
        \cup Cell11Assigns \cup ConciseReturnWrites

AfterCell13 ==
    /\ globals = GlobalsAfterCell13
    /\ nameError = {}
    /\ cnnOpt = compile("adam")
    /\ fitEpoch = 1
    /\ fitBatches = <<>>
    /\ fitUpdates = [e \in EpochCounts |-> IF e = 1 THEN 1 ELSE 0]
    /\ fitSeen = [e \in EpochCounts |-> IF e = 1 THEN Samples ELSE {}]
    /\ callShapes = call(Reshape(NumTrain))
    /\ scores = NoQuotient
    /\ printedAcc = NoFormat
    /\ predictions = <<>>
    /\ cm = ZeroMatrix
    /\ perClass = [i \in Classes |-> NoQuotient]
    /\ printed = <<>>
    /\ loopOpt = NoOpt
    /\ dataset = <<>>
    /\ shuffled = <<>>
    /\ batches = <<>>
    /\ i_epoch = 0
    /\ i_batch = 0
    /\ wver = ZeroWeights
    /\ entryW = ZeroWeights
    /\ tape = <<>>
    /\ grads = <<>>
    /\ applied = <<>>
    /\ iterTrace = <<>>
    /\ loss = <<>>
    /\ log = <<>>
    /\ loopUpdates = NoCounts
    /\ loopSeen = NoSamples

InitMetrics ==
    /\ pc = "cell16"
    /\ args = MetricsArgs
    /\ y_test \in TestSets
    /\ cnn_outputs \in [1..Len(y_test) -> ScoreVecs]
    /\ AfterCell13

NextMetrics == Cell16 \/ Cell18 \/ Cell18Print \/ Cell18End

SpecMetrics == InitMetrics /\ [][NextMetrics]_vars

\* The state SpecMetrics starts from is the state Spec is in before cell 16.
MetricsStartReached == (pc = "cell16" /\ args = MetricsArgs) => AfterCell13

\* ==================================================================== claims
IterPcs == {"iter_gradient", "iter_apply", "iter_return"}

\* C1: the batches an epoch iterates are cut from the order the epoch's
\* dataset.shuffle call produced, not from the original order of the dataset.
C1_BatchesFromShuffledOrder ==
    (pc = "for_batch" /\ i_batch = 0)
        => batches = batch(shuffled, args.batch_size, TRUE)

\* C2: both training entry points train with an Adam optimizer whose learning
\* rate is the argument _lr.
C2_BothOptimizersUseLr ==
    /\ cnnOpt # NoOpt => cnnOpt = Adam(args.lr)
    /\ loopOpt # NoOpt => loopOpt = Adam(args.lr)

\* j is the predicted class of the output v: the first class with the top score
IsPredicted(v, j) ==
    /\ \A d \in Classes : v[d] <= v[j]
    /\ \A d \in Classes : d < j => v[d] < v[j]

TestIndex == 1..Len(y_test)
RowTotal(i) == SeqSum([k \in 1..NumClasses |-> cm[i][k - 1]])
Trace == SeqSum([k \in 1..NumClasses |-> cm[k - 1][k - 1]])

\* C3: cm is 10x10; cm[i][j] is the number of test samples of label i whose
\* predicted class is j; row i sums to the number of test samples of class i,
\* and all entries sum to the number of test samples.
C3_ConfusionMatrixCounts ==
    "cm" \in globals =>
        /\ DOMAIN cm = 0..9
        /\ \A i \in 0..9 : DOMAIN cm[i] = 0..9
        /\ \A i, j \in 0..9 :
              cm[i][j] = Cardinality({k \in TestIndex :
                              y_test[k] = i /\ IsPredicted(predictions[k], j)})
        /\ \A i \in 0..9 :
              RowTotal(i) = Cardinality({k \in TestIndex : y_test[k] = i})
        /\ SeqSum([k \in 1..NumClasses |-> RowTotal(k - 1)]) = Len(y_test)

C3_Witness ==
    /\ "cm" \in globals
    /\ \E i, j \in Classes : i # j /\ cm[i][j] > 0
    /\ \E i \in Classes : cm[i][i] > 0

\* C4: the accuracy returned by evaluate is the sum of the diagonal of the
\* confusion matrix divided by the number of test samples, and the printed
\* percentage is that quotient with two decimals.
C4_AccuracyIsTraceOverTotal ==
    "cm" \in globals =>
        /\ scores.den > 0
        /\ scores.num * Len(y_test) = Trace * scores.den
        /\ printedAcc = Format([num |-> Trace, den |-> Len(y_test)], 10000)

C4_Witness ==
    /\ "cm" \in globals
    /\ 0 < Trace
    /\ Trace < Len(y_test)
    /\ \E k \in TestIndex : \E c, d \in Classes :
          c # d /\ cnn_outputs[k][c] = 2 /\ cnn_outputs[k][d] = 2

\* C5: the accuracy printed for class i is cm[i][i] over the sum of row i;
\* when the test set has a sample of class i it is defined, lies in [0, 1],
\* and the printed text is it rounded to four decimals.
C5_PerClassAccuracy ==
    \A k \in 1..Len(printed) :
        LET i == k - 1
            q == perClass[i]
            t == printed[k].text
        IN  /\ printed[k].class = i
            /\ q.num = cm[i][i]
            /\ q.den = RowTotal(i)
            /\ (\E n \in TestIndex : y_test[n] = i) =>
                  /\ q.den > 0
                  /\ 0 <= q.num /\ q.num <= q.den
                  /\ ~t.nan
                  /\ 0 <= t.val /\ t.val <= 10000
                  /\ 2 * (t.val * q.den - 10000 * q.num) <= q.den
                  /\ 2 * (10000 * q.num - t.val * q.den) <= q.den

C5_Witness ==
    /\ Len(printed) = NumClasses
    /\ \E i \in Classes : 0 < perClass[i].num /\ perClass[i].num < perClass[i].den
    /\ \E i \in Classes : perClass[i].den > 0 /\ perClass[i].num = 0

ExpectedShapes(n) ==
    << <<n, 26, 26, 32>>, <<n, 24, 24, 64>>, <<n, 12, 12, 64>>, <<n, 12, 12, 64>>,
       <<n, 9216>>, <<n, 128>>, <<n, 128>>, <<n, 10>> >>

\* C6: a call of the model on N images of 28x28x1 produces, layer after
\* layer, the shapes (N,26,26,32), (N,24,24,64), (N,12,12,64), (N,9216),
\* (N,128) and (N,10), the dropouts keeping the shape, for every N >= 1.
C6_LayerShapes ==
    /\ callShapes # <<>> => \E n \in 1..NumTrain : callShapes = ExpectedShapes(n)
    /\ pc = "iter_gradient" => callShapes = ExpectedShapes(Len(Head(batches)))

C6_Witness ==
    /\ pc = "iter_gradient"
    /\ Len(Head(batches)) = 3
    /\ callShapes[8] = <<3, 10>>

\* C7: no global name is read before it is assigned; dataset is assigned
\* when train_loop's body runs, cnn_model and history before the plotting and
\* evaluate cells, x_test_reshaped before the confusion-matrix cell.
C7_NoReadBeforeAssignment ==
    /\ nameError = {}
    /\ pc # "aborted"
    /\ pc \in ({"for_epoch", "for_batch"} \cup IterPcs) => "dataset" \in globals
    /\ pc \in {"cell13", "cell16"} => {"cnn_model", "history"} \subseteq globals
    /\ pc = "cell18" => "x_test_reshaped" \in globals

C7_Witness ==
    /\ pc = "done"
    /\ {"dataset", "cm", "scores", "history"} \subseteq globals

LogIndex == 1..Len(log)
Positions(e) == {k \in LogIndex : log[k] = e}

\* C8: epochs run in the order 0, 1, ...: the beginning line of epoch i
\* comes before every train_iteration of epoch i, the took line of epoch i
\* after all of them and before anything of epoch i+1, and each line is
\* printed once per epoch.
C8_EpochOrder ==
    /\ \A i \in 0..(MaxEpochs - 1) :
          /\ Cardinality(Positions(BeginLine(i))) <= 1
          /\ Cardinality(Positions(TookLine(i))) <= 1
          /\ pc = "done" =>
                /\ Cardinality(Positions(BeginLine(i))) = (IF i < args.epochs THEN 1 ELSE 0)
                /\ Cardinality(Positions(TookLine(i))) = (IF i < args.epochs THEN 1 ELSE 0)
    /\ \A k \in LogIndex :
          LET i == log[k].epoch
          IN  /\ i \in 0..(args.epochs - 1)
              /\ log[k].ev # "beginning epoch" =>
                    \E b \in 1..(k - 1) : log[b] = BeginLine(i)
              /\ log[k].ev = "train_iteration" =>
                    ~ \E t \in 1..(k - 1) : log[t] = TookLine(i)
              /\ i > 0 => \E t \in 1..(k - 1) : log[t] = TookLine(i - 1)

C8_Witness ==
    /\ pc = "done"
    /\ args.epochs >= 2
    /\ Cardinality(Positions(IterCall(1))) >= 2

\* C9: a call of train_iteration does one forward pass under the tape, then
\* one gradient computation for all trainable variables, then one
\* apply_gradients that pairs each gradient with its own variable and updates
\* every trainable variable once; the loss it returns was computed with the
\* weights the call started with.
C9_TrainIteration ==
    /\ pc = "iter_return" =>
          /\ iterTrace = <<"forward_pass", "gradient", "apply_gradients">>
          /\ tape = <<entryW>>
          /\ Len(applied) = Len(trainable_variables)
          /\ {applied[k][2] : k \in 1..Len(applied)} = Range(trainable_variables)
          /\ \A k \in 1..Len(applied) :
                /\ applied[k][1].wrt = applied[k][2]
                /\ applied[k][1].of = entryW
          /\ \A v \in Range(trainable_variables) : wver[v] = entryW[v] + 1
    /\ (pc = "for_batch" /\ i_batch > 0) =>
          /\ loss = <<entryW>>
          /\ \A v \in Range(trainable_variables) : wver[v] = entryW[v] + 1

C9_Witness ==
    /\ pc = "for_batch"
    /\ i_batch > 0
    /\ wver["dense_7/bias"] = 2
    /\ loss = <<[v \in Range(trainable_variables) |-> 1]>>

\* C10: per epoch, fit does ceil(N/batch_size) updates over all N samples and
\* train_loop does floor(N/batch_size) updates over batch_size*floor(N/batch_size)
\* samples; the two agree in updates and samples exactly when batch_size
\* divides N.
C10_FitVersusLoop ==
    pc = "done" =>
        \A e \in 1..args.epochs :
            /\ fitUpdates[e] = (NumTrain + args.batch_size - 1) \div args.batch_size
            /\ fitSeen[e] = Samples
            /\ loopUpdates[e] = NumTrain \div args.batch_size
            /\ Cardinality(loopSeen[e]) = args.batch_size * (NumTrain \div args.batch_size)
            /\ (fitUpdates[e] = loopUpdates[e] /\ fitSeen[e] = loopSeen[e])
                  <=> (NumTrain % args.batch_size = 0)

C10_Witness ==
    /\ pc = "done"
    /\ NumTrain % args.batch_size # 0
    /\ loopUpdates[1] >= 1
    /\ loopUpdates[1] < fitUpdates[1]

====
